---- MODULE Spec2Model ----
(***************************************************************************)
(* Model of the `filters` crate: the combinator structs of src/ops and     *)
(* src/failable/ops, the trait methods of src/filter.rs and                *)
(* src/failable/filter.rs that build them, and their evaluation.           *)
(*                                                                         *)
(* A filter is a tree.  Its leaves are closures; every inner node is one   *)
(* of the combinator structs.  The caller holds one filter (flt) built by  *)
(* method chaining, evaluates it against inputs and keeps the outcome of   *)
(* the last evaluation (out).                                              *)
(*                                                                         *)
(* The crate is generic over the element type N and never inspects an      *)
(* element: only closures do.  An element e is therefore represented by    *)
(* what the closures of the filter answer on it: e[i] is the value that    *)
(* closure number i returns for e.  Ranging e over all such vectors ranges *)
(* over every combination of closures and inputs.  out.log is the side     *)
(* channel of an evaluation: the closures it invoked, in invocation order. *)
(*                                                                         *)
(* The iterator adapters of src/iter.rs are modelled by it: the adapter    *)
(* the caller holds, the rest of its source, and what next() has yielded.  *)
(*                                                                         *)
(* thr holds the threads that evaluate flt through a shared reference,     *)
(* each with its own input and its own call stack.                         *)
(***************************************************************************)
EXTENDS Naturals, Sequences, FiniteSets

VARIABLES flt, via, out, it, thr

vars == <<flt, via, out, it, thr>>

\* Bound on the number of nodes (closures and combinator structs) of flt when
\* it is a Filter.
MaxNodes == 6

\* The same bound when flt is a FailableFilter, whose closures have four
\* answers and not two.
MaxFailableNodes == 5

\* Bound on the number of evaluations the caller makes of one filter.
MaxEvals == 2

\* Bound on the length of the sequence given to an iterator adapter.
MaxLen == 3

\* Error values of the generic error type E.
Errors == {"e1", "e2"}

NoErr == "none"

\* Result<bool, E>
Ok(v) == [tag |-> "Ok", b |-> v, e |-> NoErr]

Err(x) == [tag |-> "Err", b |-> FALSE, e |-> x]

Results == {Ok(v) : v \in BOOLEAN} \cup {Err(x) : x \in Errors}

IsErr(r) == r.tag = "Err"

----------------------------------------------------------------------------
\* The structs.

NoFilter == [op |-> "None"]

\* A closure Fn(&N) -> bool; id names it (and its side-channel counter).
Fn(i) == [op |-> "Fn", id |-> i]

\* A closure Fn(&N) -> Result<bool, E>.
FailableFn(i) == [op |-> "FailableFn", id |-> i]

\* struct Bool { b: bool }
Bool(b) == [op |-> "Bool", b |-> b]

\* struct FailableBool(bool)
FailableBool(b) == [op |-> "FailableBool", b |-> b]

Not(a) == [op |-> "Not", a |-> a]

Or(a, b) == [op |-> "Or", a |-> a, b |-> b]

XOr(a, b) == [op |-> "XOr", a |-> a, b |-> b]

And(a, b) == [op |-> "And", a |-> a, b |-> b]

FailableNot(a) == [op |-> "FailableNot", a |-> a]

FailableOr(a, b) == [op |-> "FailableOr", a |-> a, b |-> b]

FailableXOr(a, b) == [op |-> "FailableXOr", a |-> a, b |-> b]

FailableAnd(a, b) == [op |-> "FailableAnd", a |-> a, b |-> b]

\* struct MapInput<F, M, FT, B>(F, M, ..): a filter and the transform of its input
MapInput(a, m) == [op |-> "MapInput", a |-> a, m |-> m]

\* struct FailableMapInput<F, M, FT, B>(F, M, ..)
FailableMapInput(a, m) == [op |-> "FailableMapInput", a |-> a, m |-> m]

\* struct FailableMapErr<F, M, FE, E>(F, M, ..): a filter and the transform of its error
FailableMapErr(a, m) == [op |-> "FailableMapErr", a |-> a, m |-> m]

\* struct IntoFailable<F, E>(F, ..)
IntoFailable(a) == [op |-> "IntoFailable", a |-> a]

\* struct AsFailable<'a, F, E>(&'a F, ..): a is borrowed, not owned.
AsFailable(a) == [op |-> "AsFailable", a |-> a]

Unary ==
    {"Not", "FailableNot", "MapInput", "FailableMapInput", "FailableMapErr",
     "IntoFailable", "AsFailable"}

Binary == {"Or", "XOr", "And", "FailableOr", "FailableXOr", "FailableAnd"}

\* The types that implement Filter<N>, and those that implement FailableFilter<N>.
IsFilter(t) == t.op \in {"Fn", "Bool", "Not", "Or", "XOr", "And", "MapInput"}

IsFailableFilter(t) ==
    t.op \in {"FailableFn", "FailableNot", "FailableOr", "FailableXOr", "FailableAnd",
              "FailableMapInput", "FailableMapErr", "IntoFailable", "AsFailable"}

RECURSIVE Size(_)
Size(t) ==
    IF t.op \in Unary THEN 1 + Size(t.a)
    ELSE IF t.op \in Binary THEN 1 + Size(t.a) + Size(t.b)
    ELSE IF t.op = "None" THEN 0
    ELSE 1

\* The ids of the closures of kind k ("Fn" or "FailableFn") in t.
RECURSIVE Closures(_, _)
Closures(t, k) ==
    IF t.op \in Unary THEN Closures(t.a, k)
    ELSE IF t.op \in Binary THEN Closures(t.a, k) \cup Closures(t.b, k)
    ELSE IF t.op = k THEN {t.id}
    ELSE {}

Leaves(t) == Closures(t, "Fn") \cup Closures(t, "FailableFn")

\* The closures of t by their position in it, from left to right: the first
\* field of a struct before its second.
RECURSIVE LeafSeq(_)
LeafSeq(t) ==
    IF t.op \in Unary THEN LeafSeq(t.a)
    ELSE IF t.op \in Binary THEN LeafSeq(t.a) \o LeafSeq(t.b)
    ELSE IF t.op \in {"Fn", "FailableFn"} THEN <<t.id>>
    ELSE <<>>

\* The next closure the caller writes gets the next free id.
Fresh(t) == Cardinality(Leaves(t)) + 1

\* The elements that the closures of t can tell apart.
Elements(t) ==
    {e \in [1..Cardinality(Leaves(t)) -> Results] :
        \A i \in Closures(t, "Fn") : e[i].tag = "Ok"}

\* The transforms M: Fn(FE) -> E given to FailableMapErr.
ErrorMaps == [Errors -> Errors]

\* The transforms M: Fn(&T) -> B given to MapInput, as they show on what the
\* closures answer: m[r] is the answer on m(x) of a closure that answers r on
\* x.  An input on which every answer is inverted (errors swapped), and one
\* on which every closure answers alike.
InputMaps ==
    { [r \in Results |->
          IF r.tag = "Ok" THEN Ok(~r.b)
          ELSE IF r.e = "e1" THEN Err("e2") ELSE Err("e1")],
      [r \in Results |-> IF r.tag = "Ok" THEN Ok(TRUE) ELSE Err("e1")] }

\* self.1(e): the element m(e).
Apply(m, e) == [i \in DOMAIN e |-> m[e[i]]]

\* The entry that an invocation of a transform leaves in the log (closures
\* are numbered from 1).
MapCall == 0

----------------------------------------------------------------------------
\* Evaluation.  filter(t, e) and failable_filter(t, e) are t.filter(&e): the
\* value returned (val) and the closures invoked on the way, in order (log).

RECURSIVE filter(_, _)
RECURSIVE failable_filter(_, _)

\* impl Filter<I> for T where T: Fn(&I) -> bool
Fn_filter(t, e) == [val |-> e[t.id].b, log |-> <<t.id>>]

\* !self.b
Bool_filter_negated(t, e) == [val |-> ~t.b, log |-> <<>>]

\* impl_operators!(Bool, self e { self.b }, )
Bool_filter(t, e) == [val |-> t.b, log |-> <<>>]

\* A Not that leaves a Not operand alone, as if not were idempotent.
Not_filter_idempotent(t, e) ==
    LET r == filter(t.a, e)
    IN  IF t.a.op = "Not" THEN r ELSE [val |-> ~r.val, log |-> r.log]

\* !self.0.filter(e)
Not_filter(t, e) ==
    LET r == filter(t.a, e)
    IN  [val |-> ~r.val, log |-> r.log]

\* self.0.filter(e) | self.1.filter(e): no short circuit.
Or_filter_eager(t, e) ==
    LET r0 == filter(t.a, e)
        r1 == filter(t.b, e)
    IN  [val |-> r0.val \/ r1.val, log |-> r0.log \o r1.log]

\* self.0.filter(e) || self.1.filter(e)
Or_filter(t, e) ==
    LET r0 == filter(t.a, e)
        r1 == filter(t.b, e)
    IN  IF r0.val
        THEN [val |-> TRUE, log |-> r0.log]
        ELSE [val |-> r1.val, log |-> r0.log \o r1.log]

\* (self.a.filter(e) || self.b.filter(e)) && !(self.a.filter(e) &&
\* self.b.filter(e)): the same value, the operands evaluated again.
XOr_filter_expanded(t, e) ==
    LET r0 == filter(t.a, e)
        r1 == filter(t.b, e)
        either == IF r0.val THEN r0.log ELSE r0.log \o r1.log
        both == IF r0.val THEN r0.log \o r1.log ELSE r0.log
    IN  IF r0.val \/ r1.val
        THEN [val |-> ~(r0.val /\ r1.val), log |-> either \o both]
        ELSE [val |-> FALSE, log |-> either]

\* self.a.filter(e) || self.b.filter(e): the body of Or pasted into XOr.
XOr_filter_as_or(t, e) ==
    LET r0 == filter(t.a, e)
        r1 == filter(t.b, e)
    IN  IF r0.val
        THEN [val |-> TRUE, log |-> r0.log]
        ELSE [val |-> r1.val, log |-> r0.log \o r1.log]

\* self.a.filter(e) ^ self.b.filter(e)
XOr_filter(t, e) ==
    LET r0 == filter(t.a, e)
        r1 == filter(t.b, e)
    IN  [val |-> (r0.val # r1.val), log |-> r0.log \o r1.log]

\* self.a.filter(e) & self.b.filter(e): no short circuit.
And_filter_eager(t, e) ==
    LET r0 == filter(t.a, e)
        r1 == filter(t.b, e)
    IN  [val |-> r0.val /\ r1.val, log |-> r0.log \o r1.log]

\* self.a.filter(e) && self.b.filter(e)
And_filter(t, e) ==
    LET r0 == filter(t.a, e)
        r1 == filter(t.b, e)
    IN  IF r0.val
        THEN [val |-> r1.val, log |-> r0.log \o r1.log]
        ELSE [val |-> FALSE, log |-> r0.log]

\* self.0.filter(e): the transform is not applied.
MapInput_filter_unmapped(t, e) ==
    LET r == filter(t.a, e)
    IN  [val |-> r.val, log |-> <<MapCall>> \o r.log]

\* self.0.filter(self.1(e).borrow())
MapInput_filter(t, e) ==
    LET r == filter(t.a, Apply(t.m, e))
    IN  [val |-> r.val, log |-> <<MapCall>> \o r.log]

filter(t, e) ==
    CASE t.op = "Fn" -> Fn_filter(t, e)
      [] t.op = "Bool" -> Bool_filter(t, e)
      [] t.op = "Not" -> Not_filter(t, e)
      [] t.op = "Or" -> Or_filter(t, e)
      [] t.op = "XOr" -> XOr_filter(t, e)
      [] t.op = "And" -> And_filter(t, e)
      [] t.op = "MapInput" -> MapInput_filter(t, e)

\* type Error = (); Ok(self.0): the literal never fails.
FailableBool_filter(t, e) == [val |-> Ok(t.b), log |-> <<>>]

\* impl FailableFilter<I, E> for T where T: Fn(&I) -> Result<bool, E>
FailableFn_filter(t, e) == [val |-> e[t.id], log |-> <<t.id>>]

\* Ok(!self.0.filter(e).unwrap_or(true)): the error is swallowed.
FailableNot_filter_swallow(t, e) ==
    LET r == failable_filter(t.a, e)
    IN  IF IsErr(r.val)
        THEN [val |-> Ok(FALSE), log |-> r.log]
        ELSE [val |-> Ok(~r.val.b), log |-> r.log]

\* self.0.filter(e).map(|b| !b)
FailableNot_filter(t, e) ==
    LET r == failable_filter(t.a, e)
    IN  IF IsErr(r.val)
        THEN [val |-> r.val, log |-> r.log]
        ELSE [val |-> Ok(~r.val.b), log |-> r.log]

\* let a = self.0.filter(e)?; let b = self.1.filter(e)?; Ok(a || b)
FailableOr_filter_eager(t, e) ==
    LET r0 == failable_filter(t.a, e)
        r1 == failable_filter(t.b, e)
    IN  IF IsErr(r0.val) THEN [val |-> r0.val, log |-> r0.log]
        ELSE IF IsErr(r1.val) THEN [val |-> r1.val, log |-> r0.log \o r1.log]
        ELSE [val |-> Ok(r0.val.b \/ r1.val.b), log |-> r0.log \o r1.log]

\* Ok(try!(self.0.filter(e)) || try!(self.1.filter(e)))
FailableOr_filter(t, e) ==
    LET r0 == failable_filter(t.a, e)
        r1 == failable_filter(t.b, e)
    IN  IF IsErr(r0.val) THEN [val |-> r0.val, log |-> r0.log]
        ELSE IF r0.val.b THEN [val |-> Ok(TRUE), log |-> r0.log]
        ELSE IF IsErr(r1.val) THEN [val |-> r1.val, log |-> r0.log \o r1.log]
        ELSE [val |-> Ok(r1.val.b), log |-> r0.log \o r1.log]

\* Ok(self.1.filter(e)? ^ self.0.filter(e)?): the operands in the wrong order.
FailableXOr_filter_swapped(t, e) ==
    LET r0 == failable_filter(t.a, e)
        r1 == failable_filter(t.b, e)
    IN  IF IsErr(r1.val) THEN [val |-> r1.val, log |-> r1.log]
        ELSE IF IsErr(r0.val) THEN [val |-> r0.val, log |-> r1.log \o r0.log]
        ELSE [val |-> Ok(r1.val.b # r0.val.b), log |-> r1.log \o r0.log]

\* let a = self.0.filter(e); let b = self.1.filter(e); Ok(a? ^ b?):
\* both operands are evaluated before either error is looked at.
FailableXOr_filter_both(t, e) ==
    LET r0 == failable_filter(t.a, e)
        r1 == failable_filter(t.b, e)
    IN  IF IsErr(r0.val) THEN [val |-> r0.val, log |-> r0.log \o r1.log]
        ELSE IF IsErr(r1.val) THEN [val |-> r1.val, log |-> r0.log \o r1.log]
        ELSE [val |-> Ok(r0.val.b # r1.val.b), log |-> r0.log \o r1.log]

\* Ok(self.0.filter(e)? ^ self.1.filter(e)?)
FailableXOr_filter(t, e) ==
    LET r0 == failable_filter(t.a, e)
        r1 == failable_filter(t.b, e)
    IN  IF IsErr(r0.val) THEN [val |-> r0.val, log |-> r0.log]
        ELSE IF IsErr(r1.val) THEN [val |-> r1.val, log |-> r0.log \o r1.log]
        ELSE [val |-> Ok(r0.val.b # r1.val.b), log |-> r0.log \o r1.log]

\* match (self.0.filter(e), self.1.filter(e)) { (_, Err(y)) => Err(y), .. }:
\* both operands are evaluated and the last error replaces the first.
FailableAnd_filter_last_error(t, e) ==
    LET r0 == failable_filter(t.a, e)
        r1 == failable_filter(t.b, e)
    IN  IF IsErr(r1.val) THEN [val |-> r1.val, log |-> r0.log \o r1.log]
        ELSE IF IsErr(r0.val) THEN [val |-> r0.val, log |-> r0.log \o r1.log]
        ELSE [val |-> Ok(r0.val.b /\ r1.val.b), log |-> r0.log \o r1.log]

\* let a = self.0.filter(e)?; let b = self.1.filter(e)?; Ok(a && b)
FailableAnd_filter_eager(t, e) ==
    LET r0 == failable_filter(t.a, e)
        r1 == failable_filter(t.b, e)
    IN  IF IsErr(r0.val) THEN [val |-> r0.val, log |-> r0.log]
        ELSE IF IsErr(r1.val) THEN [val |-> r1.val, log |-> r0.log \o r1.log]
        ELSE [val |-> Ok(r0.val.b /\ r1.val.b), log |-> r0.log \o r1.log]

\* Ok(self.0.filter(e)? && self.1.filter(e)?)
FailableAnd_filter(t, e) ==
    LET r0 == failable_filter(t.a, e)
        r1 == failable_filter(t.b, e)
    IN  IF IsErr(r0.val) THEN [val |-> r0.val, log |-> r0.log]
        ELSE IF ~r0.val.b THEN [val |-> Ok(FALSE), log |-> r0.log]
        ELSE IF IsErr(r1.val) THEN [val |-> r1.val, log |-> r0.log \o r1.log]
        ELSE [val |-> Ok(r1.val.b), log |-> r0.log \o r1.log]

\* self.0.filter(self.1(e).borrow())
FailableMapInput_filter(t, e) ==
    LET r == failable_filter(t.a, Apply(t.m, e))
    IN  [val |-> r.val, log |-> <<MapCall>> \o r.log]

\* self.0.filter(e): the error is handed on as it is.
FailableMapErr_filter_unmapped(t, e) == failable_filter(t.a, e)

\* self.0.filter(e).map_err(&self.1)
FailableMapErr_filter(t, e) ==
    LET r == failable_filter(t.a, e)
    IN  IF IsErr(r.val)
        THEN [val |-> Err(t.m[r.val.e]), log |-> r.log \o <<MapCall>>]
        ELSE [val |-> r.val, log |-> r.log]

\* if self.0.filter(e) { Ok(true) } else { Err(..) }: false taken for a failure.
IntoFailable_filter_strict(t, e) ==
    LET r == filter(t.a, e)
    IN  [val |-> IF r.val THEN Ok(TRUE) ELSE Err("e1"), log |-> r.log]

\* Ok(self.0.filter(e))
IntoFailable_filter(t, e) ==
    LET r == filter(t.a, e)
    IN  [val |-> Ok(r.val), log |-> r.log]

\* Ok(self.0.filter(e)), self.0 a reference
AsFailable_filter(t, e) ==
    LET r == filter(t.a, e)
    IN  [val |-> Ok(r.val), log |-> r.log]

failable_filter(t, e) ==
    CASE t.op = "FailableFn" -> FailableFn_filter(t, e)
      [] t.op = "FailableNot" -> FailableNot_filter(t, e)
      [] t.op = "FailableOr" -> FailableOr_filter(t, e)
      [] t.op = "FailableXOr" -> FailableXOr_filter(t, e)
      [] t.op = "FailableAnd" -> FailableAnd_filter(t, e)
      [] t.op = "FailableMapInput" -> FailableMapInput_filter(t, e)
      [] t.op = "FailableMapErr" -> FailableMapErr_filter(t, e)
      [] t.op = "IntoFailable" -> IntoFailable_filter(t, e)
      [] t.op = "AsFailable" -> AsFailable_filter(t, e)

----------------------------------------------------------------------------
\* The trait methods: each consumes self (and its operand) and returns the
\* new combinator struct.  Nothing is evaluated here.

\* impl<N, I: Filter<N>> IntoFilter<N> for I
into_filter(f) == f

\* impl IntoFailableFilter<N, E> for I
into_failable_filter(f) == f

Filter_not(self) == Not(self)

Filter_or(self, other) == Or(self, into_filter(other))

Filter_nor(self, other) == Not(Or(self, other))

Filter_xor(self, other) == XOr(self, other)

Filter_and(self, other) == And(self, into_filter(other))

\* Not::new(Or::new(self, other)): the body of nor pasted into nand.
Filter_nand_as_nor(self, other) == Not(Or(self, other))

Filter_nand(self, other) == Not(And(self, other))

\* self.or(Not::new(other.into_filter()))
Filter_or_not(self, other) == Filter_or(self, Not(into_filter(other)))

\* Or::new(self, Or::new(other.into_filter(), other2.into_filter()))
Filter_or3(self, other, other2) ==
    Or(self, Or(into_filter(other), into_filter(other2)))

\* self.and(other.into_filter()): the negation of the operand forgotten.
Filter_and_not_plain(self, other) == Filter_and(self, into_filter(other))

\* self.and(Not::new(other.into_filter()))
Filter_and_not(self, other) == Filter_and(self, Not(into_filter(other)))

\* And::new(self, Or::new(..)): the inner combinator of or3 pasted into and3.
Filter_and3_inner_or(self, other, other2) ==
    And(self, Or(into_filter(other), into_filter(other2)))

\* And::new(self, And::new(other.into_filter(), other2.into_filter()))
Filter_and3(self, other, other2) ==
    And(self, And(into_filter(other), into_filter(other2)))

\* MapInput::new(self, map)
Filter_map_input(self, map) == MapInput(self, map)

\* IntoFailable::new(self)
Filter_into_failable(self) == IntoFailable(self)

FailableFilter_not(self) == FailableNot(self)

FailableFilter_or(self, other) == FailableOr(self, into_failable_filter(other))

FailableFilter_xor(self, other) == FailableXOr(self, other)

FailableFilter_and(self, other) == FailableAnd(self, into_failable_filter(other))

\* self.or(FailableNot::new(other.into_failable_filter()))
FailableFilter_or_not(self, other) ==
    FailableFilter_or(self, FailableNot(into_failable_filter(other)))

\* FailableOr::new(self, FailableOr::new(other.., other2..))
FailableFilter_or3(self, other, other2) ==
    FailableOr(self,
        FailableOr(into_failable_filter(other), into_failable_filter(other2)))

\* FailableNot::new(FailableAnd::new(self, other)): the body of nand.
FailableFilter_nor_as_nand(self, other) == FailableNot(FailableAnd(self, other))

\* FailableNot::new(FailableOr::new(self, other))
FailableFilter_nor(self, other) == FailableNot(FailableOr(self, other))

\* FailableAnd::new(self, FailableAnd::new(other.., other2..))
FailableFilter_and3(self, other, other2) ==
    FailableAnd(self,
        FailableAnd(into_failable_filter(other), into_failable_filter(other2)))

\* self.and(FailableNot::new(other.into_failable_filter()))
FailableFilter_and_not(self, other) ==
    FailableFilter_and(self, FailableNot(into_failable_filter(other)))

\* FailableAnd::new(FailableNot::new(self), other): only self negated.
FailableFilter_nand_inner(self, other) == FailableAnd(FailableNot(self), other)

\* FailableNot::new(FailableAnd::new(self, other))
FailableFilter_nand(self, other) == FailableNot(FailableAnd(self, other))

----------------------------------------------------------------------------
\* The caller.

\* No evaluation of the filter held has been made yet.  n counts the
\* evaluations made of it.
NoOut == [done |-> FALSE, arg |-> <<>>, res |-> FALSE, log |-> <<>>, n |-> 0]

\* The threads that can be given a reference to the filter.
Threads == {1, 2}

\* A thread that was not spawned: arg is the input it owns, stk its call
\* stack, val the value the last call returned, log the closures it invoked.
NoThread == [run |-> FALSE, arg |-> <<>>, stk |-> <<>>, val |-> FALSE, log |-> <<>>]

\* The caller replaces the filter it holds by t, the result of method m.
Build(t, m) ==
    /\ \A i \in Threads : ~thr[i].run
    /\ Size(t) <= IF IsFailableFilter(t) THEN MaxFailableNodes ELSE MaxNodes
    /\ flt' = t
    /\ via' = m
    /\ out' = NoOut
    /\ UNCHANGED <<it, thr>>

\* What the caller passes as the other operand: a new closure, or a filter
\* built from one beforehand (a combinator struct converts into itself).
\* A Bool literal is passed as well.
Operands(t) ==
    {Fn(Fresh(t)), Filter_not(Fn(Fresh(t))), Bool(TRUE), Bool(FALSE)}

FailableOperands(t) ==
    {FailableFn(Fresh(t)), FailableFilter_not(FailableFn(Fresh(t)))}

\* The caller holds no iterator adapter.
NoIter ==
    [kind |-> "none", f |-> NoFilter, all |-> <<>>, src |-> <<>>, got |-> <<>>,
     tested |-> <<>>, ended |-> FALSE]

Init ==
    /\ flt = NoFilter
    /\ via = "none"
    /\ out = NoOut
    /\ it = NoIter
    /\ thr = [i \in Threads |-> NoThread]

\* let a = |e: &N| -> bool { .. };
NewClosure ==
    /\ flt.op = "None"
    /\ Build(Fn(1), "closure")

\* let a = |e: &N| -> Result<bool, E> { .. };
NewFailableClosure ==
    /\ flt.op = "None"
    /\ Build(FailableFn(1), "failable_closure")

\* let a = Bool::new(b);
NewBool ==
    /\ flt.op = "None"
    /\ \E b \in BOOLEAN : Build(Bool(b), "bool")

\* let a = FailableBool::new(b);
NewFailableBool ==
    /\ flt.op = "None"
    /\ \E b \in BOOLEAN : Build(FailableBool(b), "failable_bool")

\* flt.filter(&e), flt a FailableBool: its error type is (), not E, so that
\* it is evaluated on its own and not combined with the closures above.
CallFailableBoolFilter ==
    /\ flt.op = "FailableBool"
    /\ out.n < MaxEvals
    /\ \E e \in Elements(flt) :
          LET r == FailableBool_filter(flt, e)
          IN  out' = [done |-> TRUE, arg |-> e, res |-> r.val, log |-> r.log,
                      n |-> out.n + 1]
    /\ UNCHANGED <<flt, via, it, thr>>

CallNot ==
    /\ IsFilter(flt)
    /\ Build(Filter_not(flt), "not")

CallOr ==
    /\ IsFilter(flt)
    /\ \E other \in Operands(flt) : Build(Filter_or(flt, other), "or")

CallNor ==
    /\ IsFilter(flt)
    /\ \E other \in Operands(flt) : Build(Filter_nor(flt, other), "nor")

CallXor ==
    /\ IsFilter(flt)
    /\ \E other \in Operands(flt) : Build(Filter_xor(flt, other), "xor")

CallAnd ==
    /\ IsFilter(flt)
    /\ \E other \in Operands(flt) : Build(Filter_and(flt, other), "and")

CallNand ==
    /\ IsFilter(flt)
    /\ \E other \in Operands(flt) : Build(Filter_nand(flt, other), "nand")

CallOrNot ==
    /\ IsFilter(flt)
    /\ \E other \in Operands(flt) : Build(Filter_or_not(flt, other), "or_not")

\* The two operands are closures written one after the other.
CallOr3 ==
    /\ IsFilter(flt)
    /\ Build(Filter_or3(flt, Fn(Fresh(flt)), Fn(Fresh(flt) + 1)), "or3")

CallAndNot ==
    /\ IsFilter(flt)
    /\ \E other \in Operands(flt) : Build(Filter_and_not(flt, other), "and_not")

CallAnd3 ==
    /\ IsFilter(flt)
    /\ Build(Filter_and3(flt, Fn(Fresh(flt)), Fn(Fresh(flt) + 1)), "and3")

CallMapInput ==
    /\ IsFilter(flt)
    /\ \E map \in InputMaps : Build(Filter_map_input(flt, map), "map_input")

CallIntoFailable ==
    /\ IsFilter(flt)
    /\ Build(Filter_into_failable(flt), "into_failable")

\* let f = AsFailable::new(&flt); the caller goes on with f.
NewAsFailable ==
    /\ IsFilter(flt)
    /\ Build(AsFailable(flt), "as_failable")

\* An evaluation that keeps its result in place of the filter, as a cache
\* that takes no account of the input would.
CallFilter_memo ==
    /\ IsFilter(flt)
    /\ out.n < MaxEvals
    /\ \E e \in Elements(flt) :
          LET r == filter(flt, e)
          IN  /\ out' = [done |-> TRUE, arg |-> e, res |-> r.val, log |-> r.log,
                         n |-> out.n + 1]
              /\ flt' = Bool(r.val)
    /\ UNCHANGED <<via, it, thr>>

\* flt.filter(&e)
CallFilter ==
    /\ IsFilter(flt)
    /\ out.n < MaxEvals
    /\ \E e \in Elements(flt) :
          LET r == filter(flt, e)
          IN  out' = [done |-> TRUE, arg |-> e, res |-> r.val, log |-> r.log,
                      n |-> out.n + 1]
    /\ UNCHANGED <<flt, via, it, thr>>

CallFailableNot ==
    /\ IsFailableFilter(flt)
    /\ Build(FailableFilter_not(flt), "failable_not")

CallFailableOr ==
    /\ IsFailableFilter(flt)
    /\ \E other \in FailableOperands(flt) :
          Build(FailableFilter_or(flt, other), "failable_or")

CallFailableXor ==
    /\ IsFailableFilter(flt)
    /\ \E other \in FailableOperands(flt) :
          Build(FailableFilter_xor(flt, other), "failable_xor")

CallFailableAnd ==
    /\ IsFailableFilter(flt)
    /\ \E other \in FailableOperands(flt) :
          Build(FailableFilter_and(flt, other), "failable_and")

CallFailableOrNot ==
    /\ IsFailableFilter(flt)
    /\ \E other \in FailableOperands(flt) :
          Build(FailableFilter_or_not(flt, other), "failable_or_not")

CallFailableOr3 ==
    /\ IsFailableFilter(flt)
    /\ Build(FailableFilter_or3(flt, FailableFn(Fresh(flt)),
                                FailableFn(Fresh(flt) + 1)), "failable_or3")

CallFailableNor ==
    /\ IsFailableFilter(flt)
    /\ \E other \in FailableOperands(flt) :
          Build(FailableFilter_nor(flt, other), "failable_nor")

CallFailableAnd3 ==
    /\ IsFailableFilter(flt)
    /\ Build(FailableFilter_and3(flt, FailableFn(Fresh(flt)),
                                 FailableFn(Fresh(flt) + 1)), "failable_and3")

CallFailableAndNot ==
    /\ IsFailableFilter(flt)
    /\ \E other \in FailableOperands(flt) :
          Build(FailableFilter_and_not(flt, other), "failable_and_not")

CallFailableNand ==
    /\ IsFailableFilter(flt)
    /\ \E other \in FailableOperands(flt) :
          Build(FailableFilter_nand(flt, other), "failable_nand")

\* FailableMapInput::new(flt, m)
NewFailableMapInput ==
    /\ IsFailableFilter(flt)
    /\ \E m \in InputMaps : Build(FailableMapInput(flt, m), "failable_map_input")

\* FailableMapErr::new(flt, m)
NewFailableMapErr ==
    /\ IsFailableFilter(flt)
    /\ \E m \in ErrorMaps : Build(FailableMapErr(flt, m), "map_err")

\* flt.filter(&e), flt a FailableFilter
CallFailableFilter ==
    /\ IsFailableFilter(flt)
    /\ out.n < MaxEvals
    /\ \E e \in Elements(flt) :
          LET r == failable_filter(flt, e)
          IN  out' = [done |-> TRUE, arg |-> e, res |-> r.val, log |-> r.log,
                      n |-> out.n + 1]
    /\ UNCHANGED <<flt, via, it, thr>>

Next ==
    \/ NewClosure
    \/ NewFailableClosure
    \/ NewBool
    \/ NewFailableBool
    \/ CallFailableBoolFilter
    \/ CallNot
    \/ CallOr
    \/ CallNor
    \/ CallXor
    \/ CallAnd
    \/ CallNand
    \/ CallOrNot
    \/ CallOr3
    \/ CallAndNot
    \/ CallAnd3
    \/ CallFilter
    \/ CallFailableNot
    \/ CallFailableOr
    \/ CallFailableXor
    \/ CallFailableAnd
    \/ CallFailableOrNot
    \/ CallFailableOr3
    \/ CallFailableNor
    \/ CallFailableAnd3
    \/ CallFailableAndNot
    \/ CallFailableNand
    \/ CallFailableFilter

Spec == Init /\ [][Next]_vars

\* Bound on the number of nodes of a failable filter whose operands are
\* filters lifted by IntoFailable or AsFailable.
MaxLiftedNodes == 7

\* What the caller passes as the other operand when it combines lifted
\* filters: a new closure, or its negation, lifted by value or by reference.
LiftedOperands(t) ==
    {Filter_into_failable(Fn(Fresh(t))), AsFailable(Fn(Fresh(t))),
     Filter_into_failable(Filter_not(Fn(Fresh(t)))),
     AsFailable(Filter_not(Fn(Fresh(t))))}

Lifted(t) == t.op \in {"IntoFailable", "AsFailable"}

\* The caller replaces the lifted filter it holds by t, the result of method
\* m on it and on a lifted operand.
BuildLifted(t, m) ==
    /\ \A i \in Threads : ~thr[i].run
    /\ Lifted(flt)
    /\ Size(t) <= MaxLiftedNodes
    /\ flt' = t
    /\ via' = m
    /\ out' = NoOut
    /\ UNCHANGED <<it, thr>>

\* flt.and(b.into_failable()), flt.and(AsFailable::new(&b))
CallFailableAndLifted ==
    \E other \in LiftedOperands(flt) :
        BuildLifted(FailableFilter_and(flt, other), "lifted_and")

CallFailableOrLifted ==
    \E other \in LiftedOperands(flt) :
        BuildLifted(FailableFilter_or(flt, other), "lifted_or")

CallFailableXorLifted ==
    \E other \in LiftedOperands(flt) :
        BuildLifted(FailableFilter_xor(flt, other), "lifted_xor")

CallFailableNandLifted ==
    \E other \in LiftedOperands(flt) :
        BuildLifted(FailableFilter_nand(flt, other), "lifted_nand")

CallFailableNorLifted ==
    \E other \in LiftedOperands(flt) :
        BuildLifted(FailableFilter_nor(flt, other), "lifted_nor")

\* A caller that builds a Filter, lifts it and combines it with another
\* lifted Filter by a method of FailableFilter.
NextLifted ==
    \/ NewClosure
    \/ CallNot
    \/ CallOr
    \/ CallXor
    \/ CallAnd
    \/ CallIntoFailable
    \/ NewAsFailable
    \/ CallFailableNot
    \/ CallFailableAndLifted
    \/ CallFailableOrLifted
    \/ CallFailableXorLifted
    \/ CallFailableNandLifted
    \/ CallFailableNorLifted
    \/ CallFailableFilter

SpecLifted == Init /\ [][NextLifted]_vars

\* A caller that wraps what it builds in the adapters: the transforms of the
\* input and of the error, and the bridge from Filter to FailableFilter.
NextAdapters ==
    \/ NewClosure
    \/ NewFailableClosure
    \/ CallAnd
    \/ CallFailableOr
    \/ CallMapInput
    \/ CallIntoFailable
    \/ NewAsFailable
    \/ NewFailableMapInput
    \/ NewFailableMapErr
    \/ CallFilter
    \/ CallFailableFilter

SpecAdapters == Init /\ [][NextAdapters]_vars

----------------------------------------------------------------------------
\* The iterator adapters.  it.f is the filter moved into the adapter, it.src
\* what the source iterator has not handed out yet, it.got the items that
\* next() has returned so far (what collect() gathers), it.tested the elements
\* the filter was evaluated on, in order (the side channel), it.ended whether
\* next() has returned None, and it.all the sequence the adapter was made from.

\* The sequences of at most MaxLen items of S.
Seqs(S) == UNION {[1..n -> S] : n \in 0..MaxLen}

\* The filters the caller gives to an adapter: a closure, a negated closure,
\* the conjunction of two closures.
IterFilters == {Fn(1), Filter_not(Fn(1)), Filter_and(Fn(1), Fn(2))}

\* Result<T, E>, the items of the source of FilterOksIter.
OkItem(t) == [tag |-> "Ok", t |-> t, e |-> NoErr]

ErrItem(x) == [tag |-> "Err", t |-> <<>>, e |-> x]

Items(p) == {OkItem(t) : t \in Elements(p)} \cup {ErrItem(x) : x \in Errors}

\* Result<T, E>, the items of the source of FilterErrIter: the filter is over
\* E, so the Err payloads are elements and the Ok payloads are opaque.
Payloads == {"t1", "t2"}

NoPayload == "none"

OkOf(t) == [tag |-> "Ok", t |-> t, e |-> <<>>]

ErrOf(e) == [tag |-> "Err", t |-> NoPayload, e |-> e]

ErrItems(p) == {OkOf(t) : t \in Payloads} \cup {ErrOf(e) : e \in Elements(p)}

RECURSIVE FilteredIterator_next(_, _, _)
RECURSIVE FilterOksIter_next(_, _, _)
RECURSIVE FilterErrIter_next(_, _, _)
RECURSIVE NestedFilteredIterator_next(_, _, _, _, _)
RECURSIVE collect(_, _)

\* if let Some(next) = self.1.next() { if self.0.filter(&next) { return
\* Some(next); } } None: one element pulled, no loop.
FilteredIterator_next_once(f, src, tested) ==
    IF src = <<>> THEN [some |-> FALSE, src |-> src, tested |-> tested]
    ELSE IF filter(f, Head(src)).val
         THEN [some |-> TRUE, item |-> Head(src), src |-> Tail(src),
               tested |-> Append(tested, Head(src))]
         ELSE [some |-> FALSE, src |-> Tail(src),
               tested |-> Append(tested, Head(src))]

\* while let Some(next) = self.1.next() { if self.0.filter(&next) { return
\* Some(next); } } None
FilteredIterator_next(f, src, tested) ==
    IF src = <<>> THEN [some |-> FALSE, src |-> src, tested |-> tested]
    ELSE IF filter(f, Head(src)).val
         THEN [some |-> TRUE, item |-> Head(src), src |-> Tail(src),
               tested |-> Append(tested, Head(src))]
         ELSE FilteredIterator_next(f, Tail(src), Append(tested, Head(src)))

\* The pairs of filters a, b that the caller gives to two adapters in a row.
ChainFilters ==
    {<<Fn(1), Fn(2)>>, <<Filter_not(Fn(1)), Fn(2)>>, <<Fn(1), Filter_not(Fn(2))>>}

\* FilteredIterator(a, FilteredIterator(b, s)): the adapters in the other
\* order, b asked about every element of s and a about those b accepts.
NestedFilteredIterator_next_swapped(a, b, src, tested, tested2) ==
    IF src = <<>>
    THEN [some |-> FALSE, src |-> src, tested |-> tested, tested2 |-> tested2]
    ELSE IF ~filter(b, Head(src)).val
         THEN NestedFilteredIterator_next(a, b, Tail(src), tested,
                                          Append(tested2, Head(src)))
         ELSE IF filter(a, Head(src)).val
              THEN [some |-> TRUE, item |-> Head(src), src |-> Tail(src),
                    tested |-> Append(tested, Head(src)),
                    tested2 |-> Append(tested2, Head(src))]
              ELSE NestedFilteredIterator_next(a, b, Tail(src),
                                               Append(tested, Head(src)),
                                               Append(tested2, Head(src)))

\* FilteredIterator::next with self.0 = b and self.1 = FilteredIterator(a, s):
\* while let Some(next) = self.1.next() { if self.0.filter(&next) { return
\* Some(next); } } None, self.1.next() being FilteredIterator_next of a.
NestedFilteredIterator_next(a, b, src, tested, tested2) ==
    LET r == FilteredIterator_next(a, src, tested)
    IN  IF ~r.some
        THEN [some |-> FALSE, src |-> r.src, tested |-> r.tested,
              tested2 |-> tested2]
        ELSE IF filter(b, r.item).val
             THEN [some |-> TRUE, item |-> r.item, src |-> r.src,
                   tested |-> r.tested, tested2 |-> Append(tested2, r.item)]
             ELSE NestedFilteredIterator_next(a, b, r.src, r.tested,
                                              Append(tested2, r.item))

\* s.into_iter().filter_with(f).collect(): next() until None.
collect(f, src) ==
    LET r == FilteredIterator_next(f, src, <<>>)
    IN  IF r.some THEN <<r.item>> \o collect(f, r.src) ELSE <<>>

\* Err(_) => continue: the errors are dropped.
FilterOksIter_next_drop(f, src, tested) ==
    IF src = <<>> THEN [some |-> FALSE, src |-> src, tested |-> tested]
    ELSE IF Head(src).tag = "Err"
         THEN FilterOksIter_next(f, Tail(src), tested)
         ELSE IF filter(f, Head(src).t).val
              THEN [some |-> TRUE, item |-> Head(src), src |-> Tail(src),
                    tested |-> Append(tested, Head(src).t)]
              ELSE FilterOksIter_next(f, Tail(src),
                                      Append(tested, Head(src).t))

\* while let Some(next) = self.0.next() { match next { Err(e) => return
\* Some(Err(e)), Ok(t) => if self.1.filter(&t) { return Some(Ok(t)); } } } None
FilterOksIter_next(f, src, tested) ==
    IF src = <<>> THEN [some |-> FALSE, src |-> src, tested |-> tested]
    ELSE IF Head(src).tag = "Err"
         THEN [some |-> TRUE, item |-> Head(src), src |-> Tail(src),
               tested |-> tested]
         ELSE IF filter(f, Head(src).t).val
              THEN [some |-> TRUE, item |-> Head(src), src |-> Tail(src),
                    tested |-> Append(tested, Head(src).t)]
              ELSE FilterOksIter_next(f, Tail(src),
                                      Append(tested, Head(src).t))

\* Err(e) => return Some(Err(e)): every error is returned, the filter unasked.
FilterErrIter_next_all(f, src, tested) ==
    IF src = <<>> THEN [some |-> FALSE, src |-> src, tested |-> tested]
    ELSE [some |-> TRUE, item |-> Head(src), src |-> Tail(src),
          tested |-> tested]

\* while let Some(next) = self.0.next() { match next { Ok(t) => return
\* Some(Ok(t)), Err(e) => if self.1.filter(&e) { return Some(Err(e)); } } } None
FilterErrIter_next(f, src, tested) ==
    IF src = <<>> THEN [some |-> FALSE, src |-> src, tested |-> tested]
    ELSE IF Head(src).tag = "Ok"
         THEN [some |-> TRUE, item |-> Head(src), src |-> Tail(src),
               tested |-> tested]
         ELSE IF filter(f, Head(src).e).val
              THEN [some |-> TRUE, item |-> Head(src), src |-> Tail(src),
                    tested |-> Append(tested, Head(src).e)]
              ELSE FilterErrIter_next(f, Tail(src),
                                      Append(tested, Head(src).e))

\* let i = s.into_iter().filter_with(p): FilteredIterator(f, self)
CallFilterWith ==
    /\ it.kind = "none"
    /\ \E p \in IterFilters : \E s \in Seqs(Elements(p)) :
          it' = [kind |-> "with", f |-> p, all |-> s, src |-> s, got |-> <<>>,
                 tested |-> <<>>, ended |-> FALSE]
    /\ UNCHANGED <<flt, via, out, thr>>

\* let i = s.into_iter().filter_oks(p): FilterOksIter(self, f)
CallFilterOks ==
    /\ it.kind = "none"
    /\ \E p \in IterFilters : \E s \in Seqs(Items(p)) :
          it' = [kind |-> "oks", f |-> p, all |-> s, src |-> s, got |-> <<>>,
                 tested |-> <<>>, ended |-> FALSE]
    /\ UNCHANGED <<flt, via, out, thr>>

\* let i = s.into_iter().filter_errs(p): FilterErrIter(self, f)
CallFilterErrs ==
    /\ it.kind = "none"
    /\ \E p \in IterFilters : \E s \in Seqs(ErrItems(p)) :
          it' = [kind |-> "errs", f |-> p, all |-> s, src |-> s, got |-> <<>>,
                 tested |-> <<>>, ended |-> FALSE]
    /\ UNCHANGED <<flt, via, out, thr>>

\* let i = s.into_iter().filter_with(a).filter_with(b):
\* FilteredIterator(b, FilteredIterator(a, self)); tested2 is what b was
\* evaluated on.
CallFilterWithTwice ==
    /\ it.kind = "none"
    /\ \E p \in ChainFilters : \E s \in Seqs(Elements(Filter_and(p[1], p[2]))) :
          it' = [kind |-> "with2", f |-> p[1], g |-> p[2], all |-> s,
                 src |-> s, got |-> <<>>, tested |-> <<>>, tested2 |-> <<>>,
                 ended |-> FALSE]
    /\ UNCHANGED <<flt, via, out, thr>>

\* What a call of next() that returned r leaves of the adapter.
After(r) ==
    [it EXCEPT !.src = r.src, !.tested = r.tested, !.ended = ~r.some,
               !.got = IF r.some THEN Append(it.got, r.item) ELSE it.got]

\* i.next(), i a FilteredIterator; the caller stops at None.
CallFilteredIteratorNext ==
    /\ it.kind = "with"
    /\ ~it.ended
    /\ it' = After(FilteredIterator_next(it.f, it.src, it.tested))
    /\ UNCHANGED <<flt, via, out, thr>>

\* i.next(), i a FilterOksIter; the caller stops at None.
CallFilterOksIterNext ==
    /\ it.kind = "oks"
    /\ ~it.ended
    /\ it' = After(FilterOksIter_next(it.f, it.src, it.tested))
    /\ UNCHANGED <<flt, via, out, thr>>

\* i.next(), i a FilterErrIter; the caller stops at None.
CallFilterErrIterNext ==
    /\ it.kind = "errs"
    /\ ~it.ended
    /\ it' = After(FilterErrIter_next(it.f, it.src, it.tested))
    /\ UNCHANGED <<flt, via, out, thr>>

\* i.next(), i a FilteredIterator over a FilteredIterator; the caller stops
\* at None.
CallNestedFilteredIteratorNext ==
    /\ it.kind = "with2"
    /\ ~it.ended
    /\ LET r == NestedFilteredIterator_next(it.f, it.g, it.src, it.tested,
                                            it.tested2)
       IN  it' = [After(r) EXCEPT !.tested2 = r.tested2]
    /\ UNCHANGED <<flt, via, out, thr>>

NextIter ==
    \/ CallFilterWith
    \/ CallFilterOks
    \/ CallFilteredIteratorNext
    \/ CallFilterOksIterNext
    \/ CallFilterErrs
    \/ CallFilterErrIterNext
    \/ CallFilterWithTwice
    \/ CallNestedFilteredIteratorNext

SpecIter == Init /\ [][NextIter]_vars

----------------------------------------------------------------------------
\* Threads.  filter takes &self, so several threads can hold a reference to
\* one filter and evaluate it at the same time.  Each thread runs filter as
\* the recursive call it is: a frame per call in progress, with the path from
\* flt to the struct the call is on (the reference self), the position in the
\* body (pc) and the value of the left operand once it is known (l).  A step
\* of a thread is one call or one return.

\* Bounds on the number of nodes of a Filter and of a FailableFilter that is
\* given to the threads.
MaxShared == 5

MaxSharedFailable == 3

\* The struct at the end of path p, read through the reference to t.
RECURSIVE NodeAt(_, _)
NodeAt(t, p) ==
    IF p = <<>> THEN t
    ELSE NodeAt(IF Head(p) = "a" THEN t.a ELSE t.b, Tail(p))

Frame(p) == [path |-> p, pc |-> 0, l |-> FALSE]

\* The call on top of the stack of th returns v.
Return(th, v) ==
    [th EXCEPT !.stk = SubSeq(th.stk, 1, Len(th.stk) - 1), !.val = v]

\* The call on top of the stack of th calls filter on its operand c, to go
\* on at pc afterwards, holding l.
Call(th, c, pc, l) ==
    LET n == Len(th.stk)
        fr == th.stk[n]
    IN  [th EXCEPT !.stk = SubSeq(th.stk, 1, n - 1)
                           \o <<[fr EXCEPT !.pc = pc, !.l = l]>>
                           \o <<Frame(fr.path \o <<c>>)>>]

\* One step of the call on top of the stack of th, the bodies of filter as in
\* Fn_filter .. FailableAnd_filter, an operand's value read from th.val when
\* its call has returned.
step(th) ==
    LET fr == th.stk[Len(th.stk)]
        t == NodeAt(flt, fr.path)
    IN  CASE t.op = "Fn" ->
               [Return(th, th.arg[t.id].b) EXCEPT !.log = Append(th.log, t.id)]
          [] t.op = "Bool" -> Return(th, t.b)
          [] t.op = "Not" ->
               IF fr.pc = 0 THEN Call(th, "a", 1, FALSE)
               ELSE Return(th, ~th.val)
          [] t.op = "Or" ->
               IF fr.pc = 0 THEN Call(th, "a", 1, FALSE)
               ELSE IF fr.pc = 1
                    THEN IF th.val THEN Return(th, TRUE)
                         ELSE Call(th, "b", 2, FALSE)
                    ELSE Return(th, th.val)
          [] t.op = "And" ->
               IF fr.pc = 0 THEN Call(th, "a", 1, FALSE)
               ELSE IF fr.pc = 1
                    THEN IF th.val THEN Call(th, "b", 2, TRUE)
                         ELSE Return(th, FALSE)
                    ELSE Return(th, th.val)
          [] t.op = "XOr" ->
               IF fr.pc = 0 THEN Call(th, "a", 1, FALSE)
               ELSE IF fr.pc = 1 THEN Call(th, "b", 2, th.val)
               ELSE Return(th, fr.l # th.val)
          [] t.op = "FailableFn" ->
               [Return(th, th.arg[t.id]) EXCEPT !.log = Append(th.log, t.id)]
          [] t.op = "FailableNot" ->
               IF fr.pc = 0 THEN Call(th, "a", 1, FALSE)
               ELSE IF IsErr(th.val) THEN Return(th, th.val)
               ELSE Return(th, Ok(~th.val.b))
          [] t.op = "FailableOr" ->
               IF fr.pc = 0 THEN Call(th, "a", 1, FALSE)
               ELSE IF IsErr(th.val) THEN Return(th, th.val)
               ELSE IF fr.pc = 1
                    THEN IF th.val.b THEN Return(th, Ok(TRUE))
                         ELSE Call(th, "b", 2, FALSE)
                    ELSE Return(th, Ok(th.val.b))
          [] t.op = "FailableAnd" ->
               IF fr.pc = 0 THEN Call(th, "a", 1, FALSE)
               ELSE IF IsErr(th.val) THEN Return(th, th.val)
               ELSE IF fr.pc = 1
                    THEN IF th.val.b THEN Call(th, "b", 2, TRUE)
                         ELSE Return(th, Ok(FALSE))
                    ELSE Return(th, Ok(th.val.b))
          [] t.op = "FailableXOr" ->
               IF fr.pc = 0 THEN Call(th, "a", 1, FALSE)
               ELSE IF IsErr(th.val) THEN Return(th, th.val)
               ELSE IF fr.pc = 1 THEN Call(th, "b", 2, th.val.b)
               ELSE Return(th, Ok(fr.l # th.val.b))

\* thread::spawn(move || f.filter(&x)) for every thread, f a shared reference
\* to the filter and x the thread's own input.
Spawn ==
    /\ flt # NoFilter
    /\ Size(flt) <= IF IsFailableFilter(flt) THEN MaxSharedFailable ELSE MaxShared
    /\ \A i \in Threads : ~thr[i].run
    /\ \E x \in [Threads -> Elements(flt)] :
          thr' = [i \in Threads |->
                     [run |-> TRUE, arg |-> x[i], stk |-> <<Frame(<<>>)>>,
                      val |-> FALSE, log |-> <<>>]]
    /\ UNCHANGED <<flt, via, out, it>>

\* A step of thread i in which the value returned is left in a place that the
\* threads share.
ThreadStep_shared(i) ==
    /\ thr[i].run
    /\ thr[i].stk # <<>>
    /\ LET th == step(thr[i])
       IN  thr' = [j \in Threads |->
                      IF j = i THEN th
                      ELSE IF thr[j].run /\ Len(th.stk) < Len(thr[i].stk)
                           THEN [thr[j] EXCEPT !.val = th.val]
                           ELSE thr[j]]
    /\ UNCHANGED <<flt, via, out, it>>

\* A step of thread i: it reads flt and its own input, and writes its own
\* stack only.
ThreadStep(i) ==
    /\ thr[i].run
    /\ thr[i].stk # <<>>
    /\ thr' = [thr EXCEPT ![i] = step(thr[i])]
    /\ UNCHANGED <<flt, via, out, it>>

Schedule == \E i \in Threads : ThreadStep(i)

NextThreads ==
    \/ NewClosure
    \/ NewFailableClosure
    \/ CallNot
    \/ CallOr
    \/ CallXor
    \/ CallAnd
    \/ CallFailableNot
    \/ CallFailableOr
    \/ CallFailableXor
    \/ CallFailableAnd
    \/ Spawn
    \/ Schedule

SpecThreads == Init /\ [][NextThreads]_vars

----------------------------------------------------------------------------
\* Properties.  In each, a and b are the operands of the filter held, and
\* ra, rb what a and b return (and invoke) when evaluated alone on out.arg.

\* How often closure i was invoked in an evaluation: its counter's increase.
Calls(log, i) == Cardinality({k \in DOMAIN log : log[k] = i})

\* No closure of t was invoked.
Untouched(t, log) == \A i \in Leaves(t) : Calls(log, i) = 0

\* C1: a.and(b).filter(x) = a.filter(x) && b.filter(x), and when a.filter(x)
\* is false no closure of b is invoked (b's counter does not move).
C1_AndShortCircuit ==
    (out.done /\ via = "and") =>
        LET ra == filter(flt.a, out.arg)
            rb == filter(flt.b, out.arg)
        IN  /\ out.res = (ra.val /\ rb.val)
            /\ ~ra.val => Untouched(flt.b, out.log)

\* a is false on x, b would have been true: the result is false, b untouched.
C1_Witness ==
    /\ out.done /\ via = "and"
    /\ ~filter(flt.a, out.arg).val
    /\ filter(flt.b, out.arg).val
    /\ out.res = FALSE
    /\ Untouched(flt.b, out.log)

\* C2: a.or(b).filter(x) = a.filter(x) || b.filter(x), and when a.filter(x)
\* is true no closure of b is invoked.
C2_OrShortCircuit ==
    (out.done /\ via = "or") =>
        LET ra == filter(flt.a, out.arg)
            rb == filter(flt.b, out.arg)
        IN  /\ out.res = (ra.val \/ rb.val)
            /\ ra.val => Untouched(flt.b, out.log)

\* a is true on x, b would have been false: the result is true, b untouched.
C2_Witness ==
    /\ out.done /\ via = "or"
    /\ filter(flt.a, out.arg).val
    /\ ~filter(flt.b, out.arg).val
    /\ out.res = TRUE
    /\ Untouched(flt.b, out.log)

\* C3: a.xor(b).filter(x) = (a.filter(x) # b.filter(x)), and the evaluation
\* is one evaluation of a followed by one evaluation of b, whatever a returns.
C3_XorEvaluatesBoth ==
    (out.done /\ via = "xor") =>
        LET ra == filter(flt.a, out.arg)
            rb == filter(flt.b, out.arg)
        IN  /\ out.res = (ra.val # rb.val)
            /\ out.log = ra.log \o rb.log
            /\ \A i \in Leaves(flt.b) : Calls(out.log, i) = 1

\* Both operands true: the result is false and b was still invoked.
C3_Witness ==
    /\ out.done /\ via = "xor"
    /\ filter(flt.a, out.arg).val
    /\ filter(flt.b, out.arg).val
    /\ out.res = FALSE
    /\ \A i \in Leaves(flt.b) : Calls(out.log, i) = 1

\* C4: FailableAnd(a, b).filter(x): Err(e) of a is returned and b not invoked;
\* Ok(false) of a gives Ok(false) and b not invoked; Ok(true) of a gives b's
\* result, Ok or Err, as it is.
C4_FailableAnd ==
    (out.done /\ via = "failable_and") =>
        LET ra == failable_filter(flt.a, out.arg)
            rb == failable_filter(flt.b, out.arg)
        IN  /\ IsErr(ra.val) =>
                out.res = ra.val /\ out.log = ra.log /\ Untouched(flt.b, out.log)
            /\ ra.val = Ok(FALSE) =>
                out.res = Ok(FALSE) /\ out.log = ra.log /\ Untouched(flt.b, out.log)
            /\ ra.val = Ok(TRUE) =>
                out.res = rb.val /\ out.log = ra.log \o rb.log

\* a is Ok(false) and b would have failed: Ok(false), b untouched.
C4_Witness ==
    /\ out.done /\ via = "failable_and"
    /\ failable_filter(flt.a, out.arg).val = Ok(FALSE)
    /\ IsErr(failable_filter(flt.b, out.arg).val)
    /\ out.res = Ok(FALSE)
    /\ Untouched(flt.b, out.log)

\* C5: FailableOr(a, b).filter(x): Err(e) of a is returned and b not invoked;
\* Ok(true) of a gives Ok(true) and b not invoked; Ok(false) of a gives b's
\* result, Ok or Err, as it is.
C5_FailableOr ==
    (out.done /\ via = "failable_or") =>
        LET ra == failable_filter(flt.a, out.arg)
            rb == failable_filter(flt.b, out.arg)
        IN  /\ IsErr(ra.val) =>
                out.res = ra.val /\ out.log = ra.log /\ Untouched(flt.b, out.log)
            /\ ra.val = Ok(TRUE) =>
                out.res = Ok(TRUE) /\ out.log = ra.log /\ Untouched(flt.b, out.log)
            /\ ra.val = Ok(FALSE) =>
                out.res = rb.val /\ out.log = ra.log \o rb.log

\* a is Ok(true) and b would have failed: Ok(true), b untouched.
C5_Witness ==
    /\ out.done /\ via = "failable_or"
    /\ failable_filter(flt.a, out.arg).val = Ok(TRUE)
    /\ IsErr(failable_filter(flt.b, out.arg).val)
    /\ out.res = Ok(TRUE)
    /\ Untouched(flt.b, out.log)

\* C6: FailableXOr(a, b).filter(x) evaluates a first; Err(e) of a is returned
\* at once, b not invoked; otherwise b is evaluated, its Err(e') is returned,
\* and with both Ok the result is Ok(a_bool ^ b_bool).
C6_FailableXorCanonical ==
    (out.done /\ via = "failable_xor") =>
        LET ra == failable_filter(flt.a, out.arg)
            rb == failable_filter(flt.b, out.arg)
        IN  /\ IsErr(ra.val) =>
                out.res = ra.val /\ out.log = ra.log /\ Untouched(flt.b, out.log)
            /\ (~IsErr(ra.val) /\ IsErr(rb.val)) =>
                out.res = rb.val /\ out.log = ra.log \o rb.log
            /\ (~IsErr(ra.val) /\ ~IsErr(rb.val)) =>
                out.res = Ok(ra.val.b # rb.val.b) /\ out.log = ra.log \o rb.log

\* Both operands would fail, with different errors: a's error is returned.
C6_Witness ==
    /\ out.done /\ via = "failable_xor"
    /\ IsErr(failable_filter(flt.a, out.arg).val)
    /\ IsErr(failable_filter(flt.b, out.arg).val)
    /\ failable_filter(flt.a, out.arg).val # failable_filter(flt.b, out.arg).val
    /\ out.res = failable_filter(flt.a, out.arg).val

\* C7 as stated: every evaluation of FailableXOr(a, b) evaluates both a and b,
\* whatever a returns, Err included: its log is that of a evaluation of a
\* followed by that of an evaluation of b.
C7_Original ==
    (out.done /\ via = "failable_xor") =>
        LET ra == failable_filter(flt.a, out.arg)
            rb == failable_filter(flt.b, out.arg)
        IN  out.log = ra.log \o rb.log

\* C7 amended: FailableXOr(a, b) evaluates both a and b whenever a returns
\* Ok(true) or Ok(false); when a returns Err, a alone is evaluated.
C7_FailableXorOperands ==
    (out.done /\ via = "failable_xor") =>
        LET ra == failable_filter(flt.a, out.arg)
            rb == failable_filter(flt.b, out.arg)
        IN  /\ ~IsErr(ra.val) => out.log = ra.log \o rb.log
            /\ IsErr(ra.val) => (out.log = ra.log /\ Untouched(flt.b, out.log))

\* a is Ok(false): a and b were both invoked.
C7_Witness ==
    /\ out.done /\ via = "failable_xor"
    /\ failable_filter(flt.a, out.arg).val = Ok(FALSE)
    /\ \E i \in Leaves(flt.a) : Calls(out.log, i) > 0
    /\ \E i \in Leaves(flt.b) : Calls(out.log, i) > 0

\* C8: FailableNot(a).filter(x) is one evaluation of a; Err(e) of a is
\* returned as it is, Ok(v) of a gives Ok(!v).
C8_FailableNot ==
    (out.done /\ via = "failable_not") =>
        LET ra == failable_filter(flt.a, out.arg)
        IN  /\ out.log = ra.log
            /\ IsErr(ra.val) => out.res = ra.val
            /\ ~IsErr(ra.val) => out.res = Ok(~ra.val.b)

\* The operand fails: the same error comes out.
C8_Witness ==
    /\ out.done /\ via = "failable_not"
    /\ out.res = Err("e2")
    /\ failable_filter(flt.a, out.arg).val = Err("e2")

\* C9: a.not().not().filter(x) = a.filter(x).
C9_DoubleNegation ==
    (out.done /\ via = "not" /\ flt.a.op = "Not") =>
        out.res = filter(flt.a.a, out.arg).val

\* a.not().not() evaluated where a is true.
C9_Witness ==
    /\ out.done /\ via = "not" /\ flt.a.op = "Not"
    /\ filter(flt.a.a, out.arg).val
    /\ out.res = TRUE

\* C10: a.nand(b).filter(x) = !(a.filter(x) && b.filter(x)), b not invoked
\* when a is false; a.nor(b).filter(x) = !(a.filter(x) || b.filter(x)), b not
\* invoked when a is true.
C10_NandNor ==
    (out.done /\ via \in {"nand", "nor"}) =>
        LET ra == filter(flt.a.a, out.arg)
            rb == filter(flt.a.b, out.arg)
        IN  /\ via = "nand" =>
                /\ out.res = ~(ra.val /\ rb.val)
                /\ ~ra.val => Untouched(flt.a.b, out.log)
            /\ via = "nor" =>
                /\ out.res = ~(ra.val \/ rb.val)
                /\ ra.val => Untouched(flt.a.b, out.log)

\* nand with a false and b true: true, b untouched.
C10_Witness ==
    /\ out.done /\ via = "nand"
    /\ ~filter(flt.a.a, out.arg).val
    /\ filter(flt.a.b, out.arg).val
    /\ out.res = TRUE
    /\ Untouched(flt.a.b, out.log)

\* C11: a.and3(b, c) is right-associated, a.filter(x) && (b.filter(x) &&
\* c.filter(x)), and a.or3(b, c) is a.filter(x) || (b.filter(x) ||
\* c.filter(x)); the operands are evaluated in the order a, b, c and the
\* evaluation stops at the first operand that decides the result.
C11_And3Or3 ==
    (out.done /\ via \in {"and3", "or3"}) =>
        LET ra == filter(flt.a, out.arg)
            rb == filter(flt.b.a, out.arg)
            rc == filter(flt.b.b, out.arg)
        IN  /\ via = "and3" =>
                /\ flt.op = "And" /\ flt.b.op = "And"
                /\ out.res = (ra.val /\ (rb.val /\ rc.val))
                /\ out.log =
                       IF ~ra.val THEN ra.log
                       ELSE IF ~rb.val THEN ra.log \o rb.log
                       ELSE ra.log \o rb.log \o rc.log
            /\ via = "or3" =>
                /\ flt.op = "Or" /\ flt.b.op = "Or"
                /\ out.res = (ra.val \/ (rb.val \/ rc.val))
                /\ out.log =
                       IF ra.val THEN ra.log
                       ELSE IF rb.val THEN ra.log \o rb.log
                       ELSE ra.log \o rb.log \o rc.log

\* and3 with a true, b false, c true: false, a then b invoked, c untouched.
C11_Witness ==
    /\ out.done /\ via = "and3"
    /\ filter(flt.a, out.arg).val
    /\ ~filter(flt.b.a, out.arg).val
    /\ filter(flt.b.b, out.arg).val
    /\ out.res = FALSE
    /\ ~Untouched(flt.b.a, out.log)
    /\ Untouched(flt.b.b, out.log)

\* C12: a.and_not(b).filter(x) = a.filter(x) && !b.filter(x), b not invoked
\* when a is false; a.or_not(b).filter(x) = a.filter(x) || !b.filter(x), b
\* not invoked when a is true; hence a.and_not(b).or(c).filter(x) =
\* (a.filter(x) && !b.filter(x)) || c.filter(x).
C12_AndNotOrNot ==
    /\ (out.done /\ via = "and_not") =>
           /\ flt.op = "And" /\ flt.b.op = "Not"
           /\ LET ra == filter(flt.a, out.arg)
                  rb == filter(flt.b.a, out.arg)
              IN  /\ out.res = (ra.val /\ ~rb.val)
                  /\ ~ra.val => Untouched(flt.b.a, out.log)
    /\ (out.done /\ via = "or_not") =>
           /\ flt.op = "Or" /\ flt.b.op = "Not"
           /\ LET ra == filter(flt.a, out.arg)
                  rb == filter(flt.b.a, out.arg)
              IN  /\ out.res = (ra.val \/ ~rb.val)
                  /\ ra.val => Untouched(flt.b.a, out.log)
    /\ (out.done /\ via = "or" /\ flt.a.op = "And" /\ flt.a.b.op = "Not") =>
           LET ra == filter(flt.a.a, out.arg)
               rb == filter(flt.a.b.a, out.arg)
               rc == filter(flt.b, out.arg)
           IN  out.res = ((ra.val /\ ~rb.val) \/ rc.val)

\* and_not with a true and b true: false, and b was invoked.
C12_Witness ==
    /\ out.done /\ via = "and_not"
    /\ filter(flt.a, out.arg).val
    /\ filter(flt.b.a, out.arg).val
    /\ out.res = FALSE
    /\ ~Untouched(flt.b.a, out.log)

\* C13: the failable nand, nor, and3, or3, and_not and or_not return, and
\* invoke, what the compositions Not(And(a, b)), Not(Or(a, b)),
\* And(a, And(b, c)), Or(a, Or(b, c)), And(a, Not(b)) and Or(a, Not(b)) of the
\* failable primitives do: an Err is returned by the first operand evaluated
\* that fails, and operands after a deciding or failing one are not invoked.
C13_FailableDerived ==
    out.done =>
        LET NotR(r) == IF IsErr(r) THEN r ELSE Ok(~r.b)
            AndR(r, s) == IF IsErr(r) THEN r ELSE IF ~r.b THEN Ok(FALSE) ELSE s
            OrR(r, s) == IF IsErr(r) THEN r ELSE IF r.b THEN Ok(TRUE) ELSE s
            Ev(t) == failable_filter(t, out.arg)
            \* the log when y is evaluated only after x returned Ok(go)
            Then(x, go, y) == IF x.val = Ok(go) THEN x.log \o y ELSE x.log
        IN  /\ via = "failable_nand" =>
                /\ flt.op = "FailableNot" /\ flt.a.op = "FailableAnd"
                /\ out.res = NotR(AndR(Ev(flt.a.a).val, Ev(flt.a.b).val))
                /\ out.log = Then(Ev(flt.a.a), TRUE, Ev(flt.a.b).log)
            /\ via = "failable_nor" =>
                /\ flt.op = "FailableNot" /\ flt.a.op = "FailableOr"
                /\ out.res = NotR(OrR(Ev(flt.a.a).val, Ev(flt.a.b).val))
                /\ out.log = Then(Ev(flt.a.a), FALSE, Ev(flt.a.b).log)
            /\ via = "failable_and3" =>
                /\ flt.op = "FailableAnd" /\ flt.b.op = "FailableAnd"
                /\ out.res = AndR(Ev(flt.a).val,
                                  AndR(Ev(flt.b.a).val, Ev(flt.b.b).val))
                /\ out.log = Then(Ev(flt.a), TRUE,
                                  Then(Ev(flt.b.a), TRUE, Ev(flt.b.b).log))
            /\ via = "failable_or3" =>
                /\ flt.op = "FailableOr" /\ flt.b.op = "FailableOr"
                /\ out.res = OrR(Ev(flt.a).val,
                                 OrR(Ev(flt.b.a).val, Ev(flt.b.b).val))
                /\ out.log = Then(Ev(flt.a), FALSE,
                                  Then(Ev(flt.b.a), FALSE, Ev(flt.b.b).log))
            /\ via = "failable_and_not" =>
                /\ flt.op = "FailableAnd" /\ flt.b.op = "FailableNot"
                /\ out.res = AndR(Ev(flt.a).val, NotR(Ev(flt.b.a).val))
                /\ out.log = Then(Ev(flt.a), TRUE, Ev(flt.b.a).log)
            /\ via = "failable_or_not" =>
                /\ flt.op = "FailableOr" /\ flt.b.op = "FailableNot"
                /\ out.res = OrR(Ev(flt.a).val, NotR(Ev(flt.b.a).val))
                /\ out.log = Then(Ev(flt.a), FALSE, Ev(flt.b.a).log)

\* a.nand(b) with a Ok(false) and b failing: Ok(true), b untouched.
C13_Witness ==
    /\ out.done /\ via = "failable_nand"
    /\ failable_filter(flt.a.a, out.arg).val = Ok(FALSE)
    /\ IsErr(failable_filter(flt.a.b, out.arg).val)
    /\ out.res = Ok(TRUE)
    /\ Untouched(flt.a.b, out.log)

\* C14: Bool::new(b).filter(x) = b and FailableBool::new(b).filter(x) = Ok(b),
\* never Err, whatever x is; hence a.and(Bool(true)).filter(x) = a.filter(x),
\* a.or(Bool(true)).filter(x) = true, a.xor(Bool(true)).filter(x) = !a.filter(x).
C14_BoolLiterals ==
    /\ (out.done /\ via = "bool") => (out.res = flt.b /\ out.log = <<>>)
    /\ (out.done /\ via = "failable_bool") =>
           (out.res = Ok(flt.b) /\ out.log = <<>>)
    /\ (out.done /\ via \in {"and", "or", "xor"} /\ flt.b = Bool(TRUE)) =>
           LET ra == filter(flt.a, out.arg)
           IN  /\ via = "and" => out.res = ra.val
               /\ via = "or" => out.res = TRUE
               /\ via = "xor" => out.res = ~ra.val

\* a.xor(Bool(true)) where the closure a is true: false.
C14_Witness ==
    /\ out.done /\ via = "xor" /\ flt.b = Bool(TRUE)
    /\ flt.a.op = "Fn"
    /\ filter(flt.a, out.arg).val
    /\ out.res = FALSE

\* C15: FailableMapErr(p, m).filter(x) is one evaluation of p; Ok(v) of p is
\* returned as it is and m is not invoked; Err(e) of p gives Err(m(e)), m
\* invoked once, after p.
C15_MapErr ==
    (out.done /\ via = "map_err") =>
        LET rp == failable_filter(flt.a, out.arg)
        IN  /\ ~IsErr(rp.val) =>
                /\ out.res = rp.val
                /\ out.log = rp.log
                /\ Calls(out.log, MapCall) = Calls(rp.log, MapCall)
            /\ IsErr(rp.val) =>
                /\ out.res = Err(flt.m[rp.val.e])
                /\ out.log = rp.log \o <<MapCall>>
                /\ Calls(out.log, MapCall) = Calls(rp.log, MapCall) + 1

\* p fails with e1 and m turns e1 into e2: Err(e2) comes out.
C15_Witness ==
    /\ out.done /\ via = "map_err"
    /\ failable_filter(flt.a, out.arg).val = Err("e1")
    /\ flt.m["e1"] = "e2"
    /\ out.res = Err("e2")

\* C16: MapInput(p, m).filter(x) = p.filter(m(x)): m is applied once, then p
\* is evaluated once, on m(x); FailableMapInput(p, m).filter(x) is what p
\* returns for m(x), an error included.
C16_MapInput ==
    /\ (out.done /\ via = "map_input") =>
           LET rp == filter(flt.a, Apply(flt.m, out.arg))
           IN  out.res = rp.val /\ out.log = <<MapCall>> \o rp.log
    /\ (out.done /\ via = "failable_map_input") =>
           LET rp == failable_filter(flt.a, Apply(flt.m, out.arg))
           IN  out.res = rp.val /\ out.log = <<MapCall>> \o rp.log

\* p is false on x and true on m(x): the mapped filter is true on x.
C16_Witness ==
    /\ out.done /\ via = "map_input"
    /\ ~filter(flt.a, out.arg).val
    /\ filter(flt.a, Apply(flt.m, out.arg)).val
    /\ out.res = TRUE

\* C17: IntoFailable(p).filter(x) and AsFailable(&p).filter(x) are
\* Ok(p.filter(x)), never Err, with p evaluated once; an evaluation through
\* AsFailable leaves the borrowed p as it was, so that p evaluated directly
\* returns what the adapter wrapped.
C17_Bridge ==
    /\ [](  (out.done /\ via \in {"into_failable", "as_failable"}) =>
               LET rp == filter(flt.a, out.arg)
               IN  /\ flt.op = IF via = "into_failable"
                                THEN "IntoFailable" ELSE "AsFailable"
                   /\ out.res = Ok(rp.val)
                   /\ ~IsErr(out.res)
                   /\ out.log = rp.log )
    /\ [][ (via = "as_failable" /\ out'.done) => flt'.a = flt.a ]_vars

\* The borrowed p is false on x: the adapter returns Ok(false), not an error.
C17_Witness ==
    /\ out.done /\ via = "as_failable"
    /\ Leaves(flt.a) # {}
    /\ ~filter(flt.a, out.arg).val
    /\ out.res = Ok(FALSE)

C19_FilterWith ==
    it.kind = "with" =>
        LET n == Len(it.all) - Len(it.src)
            pulled == SubSeq(it.all, 1, n)
            Test(x) == filter(it.f, x).val
        IN  /\ it.src = SubSeq(it.all, n + 1, Len(it.all))
            /\ it.got = SelectSeq(pulled, Test)
            /\ it.tested = pulled
            /\ (~it.ended /\ n > 0) => Test(pulled[n])
            /\ it.ended => (it.src = <<>> /\ it.got = SelectSeq(it.all, Test))

\* A drained adapter over three elements of which only the second matched.
C19_Witness ==
    /\ it.kind = "with" /\ it.ended
    /\ Len(it.all) = 3
    /\ ~filter(it.f, it.all[1]).val
    /\ filter(it.f, it.all[2]).val
    /\ ~filter(it.f, it.all[3]).val
    /\ it.got = <<it.all[2]>>

\* C20: what s.filter_oks(p) has yielded is the subsequence of the items
\* pulled from s that are an Err, unchanged, or an Ok(t) with p true on t, in
\* the order of s; p was evaluated on the payload of every Ok pulled and on
\* nothing else, an Err never reaching it.
C20_FilterOks ==
    it.kind = "oks" =>
        LET n == Len(it.all) - Len(it.src)
            pulled == SubSeq(it.all, 1, n)
            IsOk(x) == x.tag = "Ok"
            Keep(x) == x.tag = "Err" \/ filter(it.f, x.t).val
            oks == SelectSeq(pulled, IsOk)
        IN  /\ it.src = SubSeq(it.all, n + 1, Len(it.all))
            /\ it.got = SelectSeq(pulled, Keep)
            /\ it.tested = [i \in 1..Len(oks) |-> oks[i].t]
            /\ it.ended => (it.src = <<>> /\ it.got = SelectSeq(it.all, Keep))

\* A drained adapter over an Ok that matched, an Err and an Ok that did not:
\* the first two were yielded and the filter saw the two Ok payloads only.
C20_Witness ==
    /\ it.kind = "oks" /\ it.ended
    /\ Len(it.all) = 3
    /\ it.all[1].tag = "Ok" /\ filter(it.f, it.all[1].t).val
    /\ it.all[2].tag = "Err"
    /\ it.all[3].tag = "Ok" /\ ~filter(it.f, it.all[3].t).val
    /\ it.got = <<it.all[1], it.all[2]>>
    /\ it.tested = <<it.all[1].t, it.all[3].t>>

\* C21: what s.filter_errs(p) has yielded is the subsequence of the items
\* pulled from s that are an Ok, unchanged, or an Err(e) with p true on e, in
\* the order of s; p was evaluated on the payload of every Err pulled and on
\* nothing else, an Ok never reaching it; drained, the adapter has yielded
\* every Ok of s and exactly the Err(e) of s with p true on e.
C21_FilterErrs ==
    it.kind = "errs" =>
        LET n == Len(it.all) - Len(it.src)
            pulled == SubSeq(it.all, 1, n)
            IsErrItem(x) == x.tag = "Err"
            Keep(x) == x.tag = "Ok" \/ filter(it.f, x.e).val
            errs == SelectSeq(pulled, IsErrItem)
        IN  /\ it.src = SubSeq(it.all, n + 1, Len(it.all))
            /\ it.got = SelectSeq(pulled, Keep)
            /\ it.tested = [i \in 1..Len(errs) |-> errs[i].e]
            /\ it.ended => (it.src = <<>> /\ it.got = SelectSeq(it.all, Keep))

\* A drained adapter over an Err that was rejected, an Ok and an Err that
\* matched: the last two were yielded and the filter saw the two Err payloads
\* only.
C21_Witness ==
    /\ it.kind = "errs" /\ it.ended
    /\ Len(it.all) = 3
    /\ it.all[1].tag = "Err" /\ ~filter(it.f, it.all[1].e).val
    /\ it.all[2].tag = "Ok"
    /\ it.all[3].tag = "Err" /\ filter(it.f, it.all[3].e).val
    /\ it.got = <<it.all[2], it.all[3]>>
    /\ it.tested = <<it.all[1].e, it.all[3].e>>

\* C22: whatever the interleaving of the steps of the threads that evaluate
\* one filter, a thread that has returned holds the value that filter returns
\* for its input when evaluated alone, having invoked the same closures in
\* the same order; and no step of a thread changes the filter.
C22_Threads ==
    /\ [](\A i \in Threads :
             (thr[i].run /\ thr[i].stk = <<>>) =>
                 LET r == IF IsFilter(flt) THEN filter(flt, thr[i].arg)
                          ELSE failable_filter(flt, thr[i].arg)
                 IN  thr[i].val = r.val /\ thr[i].log = r.log)
    /\ [][(\E i \in Threads : thr[i].run) => flt' = flt]_vars

\* Two threads that have returned from the same filter of two closures, on
\* different inputs and with different values, each having invoked both
\* closures.
C22_Witness ==
    /\ thr[1].run /\ thr[2].run
    /\ thr[1].stk = <<>> /\ thr[2].stk = <<>>
    /\ flt.op \in Binary
    /\ Cardinality(Leaves(flt)) = 2
    /\ thr[1].arg # thr[2].arg
    /\ thr[1].val # thr[2].val
    /\ Len(thr[1].log) = 2 /\ Len(thr[2].log) = 2

\* C23: in an evaluation of a failable filter built with not, or, xor, and,
\* no closure is invoked after one that returned an error; the evaluation
\* returns an error exactly when the closure invoked last returned one, and
\* then that very error.  And(And(a, b), c) with a and b Ok(true) and c
\* failing returns c's error; Or(Or(a, b), c) with a failing returns a's
\* error, b and c not invoked.
C23_FirstError ==
    (out.done /\ IsFailableFilter(flt)) =>
        LET n == Len(out.log)
            Answer(j) == out.arg[out.log[j]]
            a == FailableFn(1)
            b == FailableFn(2)
            c == FailableFn(3)
        IN  /\ n > 0
            /\ \A j \in 1..(n - 1) : ~IsErr(Answer(j))
            /\ IsErr(out.res) => out.res = Answer(n)
            /\ IsErr(Answer(n)) => out.res = Answer(n)
            /\ ( /\ flt = FailableFilter_and(FailableFilter_and(a, b), c)
                 /\ out.arg[1] = Ok(TRUE) /\ out.arg[2] = Ok(TRUE)
                 /\ IsErr(out.arg[3]) )
               => (out.res = out.arg[3] /\ out.log = <<1, 2, 3>>)
            /\ ( /\ flt = FailableFilter_or(FailableFilter_or(a, b), c)
                 /\ IsErr(out.arg[1]) )
               => (out.res = out.arg[1] /\ out.log = <<1>>)

\* The and-chain of three closures, the last one failing after two Ok(true),
\* on an input on which nothing but the last closure fails.
C23_Witness ==
    /\ out.done
    /\ flt = FailableFilter_and(FailableFilter_and(FailableFn(1), FailableFn(2)),
                                FailableFn(3))
    /\ out.arg[1] = Ok(TRUE) /\ out.arg[2] = Ok(TRUE)
    /\ out.arg[3] = Err("e2")
    /\ out.res = Err("e2")
    /\ out.log = <<1, 2, 3>>

\* C24: in an evaluation of a filter, failable or not, every closure invoked
\* is a closure of the filter, none is invoked twice, the closures are invoked
\* in the order of their positions in the filter from left to right, and the
\* invocations are at most as many as the filter has closures.
C24_BoundedOrdered ==
    out.done =>
        LET leaves == LeafSeq(flt)
            n == Len(out.log)
            Position(i) == CHOOSE k \in 1..Len(leaves) : leaves[k] = i
        IN  /\ \A j \in 1..n : out.log[j] \in Leaves(flt)
            /\ \A i \in Leaves(flt) : Calls(out.log, i) <= 1
            /\ \A j \in 1..(n - 1) :
                   Position(out.log[j]) < Position(out.log[j + 1])
            /\ n <= Len(leaves)

\* A filter of three closures, with an operand that is itself built from two,
\* evaluated with the second closure skipped: the first and the third were
\* invoked, once each and in that order.
C24_Witness ==
    /\ out.done
    /\ Len(LeafSeq(flt)) = 3
    /\ flt.op \in Binary
    /\ out.log = <<LeafSeq(flt)[1], LeafSeq(flt)[3]>>

\* C25: a failable not, and, or, xor, nand, nor of filters a and b lifted by
\* IntoFailable or AsFailable returns Ok(v), v the value of the not, and, or,
\* xor, nand, nor of a and b themselves, never an error, and invokes the
\* closures that this infallible filter invokes, in the same order.
C25_LiftedCommutes ==
    out.done =>
        LET Same(t) == /\ out.res = Ok(filter(t, out.arg).val)
                       /\ out.log = filter(t, out.arg).log
        IN  /\ (via = "failable_not" /\ Lifted(flt.a)) =>
                   Same(Filter_not(flt.a.a))
            /\ via = "lifted_and" => Same(Filter_and(flt.a.a, flt.b.a))
            /\ via = "lifted_or" => Same(Filter_or(flt.a.a, flt.b.a))
            /\ via = "lifted_xor" => Same(Filter_xor(flt.a.a, flt.b.a))
            /\ via = "lifted_nand" => Same(Filter_nand(flt.a.a.a, flt.a.b.a))
            /\ via = "lifted_nor" => Same(Filter_nor(flt.a.a.a, flt.a.b.a))

\* The or of a conjunction lifted by value and a closure lifted by reference,
\* on an input on which the conjunction is false in its first closure and the
\* other closure is true: Ok(true), the second closure of the conjunction not
\* invoked.
C25_Witness ==
    /\ out.done /\ via = "lifted_or"
    /\ flt.a.op = "IntoFailable" /\ flt.a.a.op = "And"
    /\ flt.b.op = "AsFailable" /\ flt.b.a.op = "Fn"
    /\ out.res = Ok(TRUE)
    /\ out.log = <<1, 3>>

\* C26: what s.filter_with(a).filter_with(b) has yielded is the subsequence
\* of the elements pulled from s on which a and b are true; a was evaluated on
\* every element pulled and b on those on which a is true, and on nothing
\* else; drained, it has yielded what s.filter_with(a.and(b)) collects; and
\* a.and(b) invokes no closure of b on an element on which a is false.
C26_ChainedFilterWith ==
    it.kind = "with2" =>
        LET n == Len(it.all) - Len(it.src)
            pulled == SubSeq(it.all, 1, n)
            ab == Filter_and(it.f, it.g)
            TestA(x) == filter(it.f, x).val
            TestAB(x) == filter(ab, x).val
        IN  /\ it.src = SubSeq(it.all, n + 1, Len(it.all))
            /\ it.got = SelectSeq(pulled, TestAB)
            /\ it.tested = pulled
            /\ it.tested2 = SelectSeq(pulled, TestA)
            /\ it.ended => (it.src = <<>> /\ it.got = collect(ab, it.all))
            /\ \A i \in 1..Len(it.all) :
                   ~TestA(it.all[i]) =>
                       /\ filter(ab, it.all[i]).log = filter(it.f, it.all[i]).log
                       /\ Untouched(it.g, filter(ab, it.all[i]).log)

\* A drained chain over three elements: a rejected the first, b the second,
\* both accepted the third; b saw the last two only.
C26_Witness ==
    /\ it.kind = "with2" /\ it.ended
    /\ Len(it.all) = 3
    /\ ~filter(it.f, it.all[1]).val /\ filter(it.g, it.all[1]).val
    /\ filter(it.f, it.all[2]).val /\ ~filter(it.g, it.all[2]).val
    /\ filter(it.f, it.all[3]).val /\ filter(it.g, it.all[3]).val
    /\ it.got = <<it.all[3]>>
    /\ it.tested2 = <<it.all[2], it.all[3]>>

====
